---- MODULE Spec2Model ----
(***************************************************************************)
(* Model of agent/executers/executers.go: the ShellCommandExecuter facade  *)
(* (Execute, StartExe), the process executor (ExecuteCommand,              *)
(* StartCommand) and its two monitoring goroutines (killProcessOnCancel,   *)
(* killProcessOnTimeout), together with the environment they race with:    *)
(* the child process, the cancel flag's controller, the timer and the      *)
(* file system holding the output files.                                   *)
(***************************************************************************)
EXTENDS Integers, Sequences, FiniteSets, TLC

\* ------------------------------------------------------------- bounds
\* Number of sequential Execute/StartExe calls in one behaviour.
MaxCalls == 2
\* Bytes one process writes per stream.
MaxOut == 1
\* Output files the environment removes in one behaviour.
MaxRemovals == 1

\* ------------------------------------------------------------- constants
Streams == {"stdout", "stderr"}
\* The file path a call may give for a stream ("" = none given).
PathOf(s) == IF s = "stdout" THEN "out" ELSE "err"
Paths == {PathOf(s) : s \in Streams}
Platforms == {"unix", "windows"}
\* Exit statuses a process ends with on its own.
ExitCodes == {0, 3, 255}
\* appconfig.CommandStoppedPreemptivelyExitCode: the reserved value meaning
\* "stopped preemptively by this system" (defined in package appconfig).
CommandStoppedPreemptivelyExitCode == 137

VARIABLES
  platform,     \* OS family the agent was built for
  callNo,       \* number of calls made so far
  api,          \* "Execute" or "StartExe": the entry point of the current call
  path,         \* stream -> file path argument of the current call ("" = buffer)
  pc,           \* position of the calling goroutine
  sink,         \* stream -> what command.Stdout/Stderr is bound to
  handles,      \* streams whose write handle (opened by this call) is still open
  buf,          \* stream -> bytes accumulated in the in-memory buffer
  fileExists,   \* path -> whether the file exists
  fileContent,  \* path -> bytes of the file
  proc,         \* "none" | "running" | "exited" | "signaled"
  procStatus,   \* exit status of an exited process
  written,      \* stream -> bytes the process wrote to that stream
  killedBy,     \* who terminated the process: "none" | "cancel" | "timeout" | "external"
  killCalls,    \* number of killProcess calls of this execution
  canceled,     \* the cancel flag
  cancelAt,     \* state of the process when the flag was signaled ("never" if not)
  firedAt,      \* state of the process when the timer fired ("never" if not)
  timer,        \* "none" | "running" | "fired" | "stopped"
  cancelW,      \* killProcessOnCancel goroutine: "none" | "waiting" | "done"
  timeoutW,     \* killProcessOnTimeout goroutine: "none" | "waiting" | "done"
  interrupted,  \* signal.execInterruptedOnWindows
  waitErr,      \* result of command.Wait(): "unset" | "nil" | "exit" | "other"
  rawStatus,    \* status.ExitStatus() of the wait status
  timedOut,     \* local timedOut of ExecuteCommand
  flagSeen,     \* value of signal.execInterruptedOnWindows read at normalization
  cancelSeen,   \* value of cancelFlag.Canceled() read at attribution
  cause,        \* cause the attribution logged: "none" | "cancel" | "timeout"
  process,      \* process handle StartExe returns: "nil" | "handle"
  exitCode,     \* returned exit code
  err,          \* error returned by ExecuteCommand/StartCommand
  errs,         \* returned error set
  reader,       \* stream -> kind of reader returned
  readerData,   \* stream -> bytes the returned reader yields
  prevOut,      \* stream -> bytes the previous call's process wrote to its file
  removed       \* paths the environment has removed

vars == <<platform, callNo, api, path, pc, sink, handles, buf, fileExists,
          fileContent, proc, procStatus, written, killedBy,
          killCalls, canceled, cancelAt, firedAt, timer, cancelW, timeoutW, interrupted, waitErr,
          rawStatus, timedOut, flagSeen, cancelSeen, cause, process, exitCode,
          err, errs,
          reader, readerData, prevOut, removed>>

fsVars == <<fileExists, fileContent, removed>>
procVars == <<proc, procStatus, written, killedBy>>
raceVars == <<killCalls, canceled, cancelAt, firedAt, timer, cancelW, timeoutW,
              interrupted>>
normVars == <<waitErr, rawStatus, timedOut, flagSeen, cancelSeen, cause>>
resultVars == <<process, exitCode, err, errs, reader, readerData>>
callVars == <<platform, callNo, api, path>>

Empty == [s \in Streams |-> <<>>]

Init ==
  /\ platform \in Platforms
  /\ callNo = 0
  /\ api = "Execute"
  /\ path = [s \in Streams |-> ""]
  /\ pc = "idle"
  /\ sink = [s \in Streams |-> "unset"]
  /\ handles = {}
  /\ buf = Empty
  /\ \E b \in BOOLEAN : fileExists = [p \in Paths |-> b]
  /\ fileContent = [p \in Paths |-> IF fileExists[p] THEN <<0>> ELSE <<>>]
  /\ proc = "none"
  /\ procStatus = 0
  /\ written = Empty
  /\ killedBy = "none"
  /\ killCalls = 0
  /\ canceled = FALSE
  /\ cancelAt = "never"
  /\ firedAt = "never"
  /\ timer = "none"
  /\ cancelW = "none"
  /\ timeoutW = "none"
  /\ interrupted = FALSE
  /\ waitErr = "unset"
  /\ rawStatus = 0
  /\ timedOut = FALSE
  /\ flagSeen = FALSE
  /\ cancelSeen = FALSE
  /\ cause = "none"
  /\ process = "nil"
  /\ exitCode = 0
  /\ err = "nil"
  /\ errs = <<>>
  /\ reader = [s \in Streams |-> "nil"]
  /\ readerData = Empty
  /\ prevOut = Empty
  /\ removed = {}

\* ------------------------------------------------------------- helpers
\* Variant: the file is opened with truncation instead of append.
OpenFileTruncate(exists, content) == <<>>

\* os.OpenFile(path, appconfig.FileFlagsCreateOrAppend, ...): the content of
\* the file once opened for writing: kept when it exists, empty when created.
OpenFileCreateOrAppend(exists, content) == IF exists THEN content ELSE <<>>

\* What the writer variable handed to ExecuteCommand/StartCommand holds after
\* a successful os.OpenFile. Execute assigns the opened file to stdoutWriter;
\* StartExe declares a new stdoutWriter with := inside the if block, so the
\* outer variable it passes on stays a nil *os.File.
BoundWriter(entry) == IF entry = "Execute" THEN "file" ELSE "nil"

\* The writer used when no file path is given: Execute allocates a buffer,
\* StartExe leaves the writer nil.
DefaultWriter(entry) == IF entry = "Execute" THEN "buf" ELSE "nil"

\* fileutil.Exists(path)
Exists(p) == p # "" /\ fileExists[p]

\* Variant: the watchers are started before command.Start()'s error is looked at.
RaceStartsAlways(launched) == TRUE

\* Whether the watchers and the timer are started after command.Start().
RaceStarts(launched) == launched

\* Variant: only the stderr writer's Close is deferred.
DeferredCloseStderrOnly(open) == open \ {"stderr"}

\* The write handles still open once the deferred Close calls of Execute
\* (lines 84, 101) or StartExe (lines 168, 179) have run: every os.OpenFile
\* that succeeded is followed by a defer of that writer's Close.
DeferredClose(open) == open \ Streams

\* Variant: the error of ExecuteCommand is not collected.
AppendErrDropped(es, e) == es

\* "if err != nil { errs = append(errs, err) }" of Execute (lines 114-116) and
\* StartExe (lines 189-191).
AppendErr(es, e) == IF e = "nil" THEN es ELSE Append(es, e)

\* Variant: StartCommand starts the timer and its watcher like ExecuteCommand.
TimeoutObservedAlways(entry) == TRUE

\* Whether the entry point creates the timer and starts killProcessOnTimeout:
\* ExecuteCommand does (lines 249-250), StartCommand does not (lines 335-338).
TimeoutObserved(entry) == entry = "Execute"

\* Exit code ExecuteCommand/StartCommand report for command.Start()'s result.
StartExitCode(launched) == IF launched THEN 0 ELSE 1

\* How a forcefully terminated process looks to the waiter: on unix it is
\* signaled (SIGKILL); on windows it exits with the terminator's status 1.
KilledState(plat) == IF plat = "unix" THEN "signaled" ELSE "exited"
KilledStatus(plat) == IF plat = "unix" THEN 0 ELSE 1

\* command.Wait(): nil for a process that exited with status 0, an
\* *exec.ExitError otherwise. (An I/O error of Wait itself, the third kind
\* Normalize handles, is not produced by this environment.)
WaitResult(p, status) == IF p = "exited" /\ status = 0 THEN "nil" ELSE "exit"

\* Variant: the wait status is not read; every failure keeps exitCode = 1.
ExitStatusFailedOnly(p, status) ==
  IF p = "signaled" THEN -1 ELSE IF status = 0 THEN 0 ELSE 1

\* status.ExitStatus(): the exit status, -1 when the process did not exit
\* (it was terminated by a signal).
ExitStatus(p, status) == IF p = "signaled" THEN -1 ELSE status

\* Variant: the result of timer.Stop() is taken to be true always.
TimerStopIgnored(t) == TRUE

\* timer.Stop(): true iff the call stops the timer (it had not fired).
TimerStop(t) == t = "running"

\* Variant: the negation is missing.
TimedOutNotNegated(t) == TimerStop(t)

\* The value of timedOut := !timer.Stop() (line 253).
TimedOut(t) == ~TimerStop(t)

\* Variant: every non-zero status is treated as an interruption.
NormalizedExitCodeAnyFailure(status, flag) ==
  IF flag \/ status # 0 THEN -1 ELSE status

\* Variant: the interrupted flag is not consulted.
NormalizedExitCodeNoFlag(status, flag) == status

\* The exit code after the interrupted-flag check (lines 260-265).
NormalizedExitCode(status, flag) == IF flag THEN -1 ELSE status

\* Variant: the cancel branch is missing from the attribution.
AttributedExitCodeTimeoutOnly(isCanceled, isTimedOut) ==
  IF isTimedOut THEN CommandStoppedPreemptivelyExitCode ELSE -1

\* Variant: every exit code of -1 is reported as a preemptive stop.
AttributedExitCodeAlways(isCanceled, isTimedOut) ==
  CommandStoppedPreemptivelyExitCode

\* The attribution of an exit code of -1 (lines 269-278).
AttributedExitCode(isCanceled, isTimedOut) ==
  IF isCanceled THEN CommandStoppedPreemptivelyExitCode
  ELSE IF isTimedOut THEN CommandStoppedPreemptivelyExitCode
  ELSE -1

\* Variant: a kill attempt that lost the race is returned as an error.
CleanExitResultKillFailed(isCanceled, isTimedOut) ==
  IF isCanceled \/ isTimedOut
  THEN [exitCode |-> 1, err |-> "killfailed"]
  ELSE [exitCode |-> 0, err |-> "nil"]

\* Variant: the timeout is looked at before the cancel flag.
AttributedCauseTimeoutFirst(isCanceled, isTimedOut) ==
  IF isTimedOut THEN "timeout" ELSE IF isCanceled THEN "cancel" ELSE "none"

\* The cause the attribution logs (lines 270-278): "The execution of command
\* was cancelled." or "... was timedout.", or nothing.
AttributedCause(isCanceled, isTimedOut) ==
  IF isCanceled THEN "cancel" ELSE IF isTimedOut THEN "timeout" ELSE "none"

\* Lines 284-296: the result of a wait without error. A cancel flag that is
\* signaled or a timer that fired is only logged.
CleanExitResult(isCanceled, isTimedOut) == [exitCode |-> 0, err |-> "nil"]

\* Variant: both readers are built from the stderr buffer.
BufferBytesStderr(s) == buf["stderr"]

\* stdoutBuf.Bytes() / stderrBuf.Bytes(): the bytes of stream s's buffer.
BufferBytes(s) == buf[s]

\* No goroutine of the finished execution is about to act on its process.
Quiescent ==
  /\ proc # "running"
  /\ ~(cancelW = "waiting" /\ canceled)
  /\ ~(timeoutW = "waiting" /\ timer = "fired")

\* The position of the calling goroutine at the read-back of stream s.
ReadPc(s) == IF s = "stdout" THEN "readStdout" ELSE "readStderr"

\* ------------------------------------------------------------- the facade
\* A caller invokes Execute or StartExe. Every execution gets its own
\* command, timeoutSignal and cancel flag.
Call(entry, po, pe) ==
  /\ pc \in {"idle", "returned"}
  /\ callNo < MaxCalls
  /\ Quiescent
  /\ callNo' = callNo + 1
  /\ api' = entry
  /\ path' = [s \in Streams |-> IF s = "stdout" THEN po ELSE pe]
  /\ pc' = "openStdout"
  /\ sink' = [s \in Streams |-> "unset"]
  /\ buf' = Empty
  /\ proc' = "none" /\ procStatus' = 0 /\ written' = Empty /\ killedBy' = "none"
  /\ killCalls' = 0 /\ canceled' = FALSE /\ timer' = "none"
  /\ cancelAt' = "never" /\ firedAt' = "never"
  /\ cancelW' = "none" /\ timeoutW' = "none" /\ interrupted' = FALSE
  /\ waitErr' = "unset" /\ rawStatus' = 0 /\ timedOut' = FALSE
  /\ flagSeen' = FALSE /\ cancelSeen' = FALSE /\ cause' = "none"
  /\ process' = "nil"
  /\ exitCode' = 0 /\ err' = "nil" /\ errs' = <<>>
  /\ reader' = [s \in Streams |-> "nil"] /\ readerData' = Empty
  /\ prevOut' = [s \in Streams |-> IF sink[s] = "file" THEN written[s] ELSE <<>>]
  /\ UNCHANGED <<platform, handles, fsVars>>

\* The sink setup of stream s (Execute lines 73-105, StartExe lines 159-180).
\* A failed os.OpenFile returns at once with the named results at their zero
\* values; the deferred Close calls of the handles opened so far run.
OpenSink(s, here, next) ==
  /\ pc = here
  /\ IF path[s] = ""
     THEN /\ sink' = [sink EXCEPT ![s] = DefaultWriter(api)]
          /\ pc' = next
          /\ UNCHANGED <<handles, fsVars>>
     ELSE \E ok \in BOOLEAN :
            IF ok
            THEN /\ fileContent' = [fileContent EXCEPT ![path[s]] =
                       OpenFileCreateOrAppend(fileExists[path[s]], @)]
                 /\ fileExists' = [fileExists EXCEPT ![path[s]] = TRUE]
                 /\ handles' = handles \cup {s}
                 /\ sink' = [sink EXCEPT ![s] = BoundWriter(api)]
                 /\ pc' = next
                 /\ UNCHANGED removed
            ELSE /\ pc' = "returned"
                 /\ handles' = DeferredClose(handles)
                 /\ UNCHANGED <<sink, fsVars>>
  /\ UNCHANGED <<callVars, buf, procVars, raceVars, normVars, resultVars,
                 prevOut>>

OpenStdout == OpenSink("stdout", "openStdout", "openStderr")
OpenStderr == OpenSink("stderr", "openStderr", "start")

\* ------------------------------------------------------------- the process
\* The running process writes one byte to a stream. With a file writer the
\* child appends to the file through its own copy of the handle; with a
\* buffer the bytes are copied into it before command.Wait() returns; with a
\* nil writer the stream is closed and the byte is lost.
ProcWrite(s) ==
  /\ proc = "running"
  /\ Len(written[s]) < MaxOut
  /\ written' = [written EXCEPT ![s] = Append(@, callNo)]
  /\ fileContent' = IF sink[s] = "file" /\ fileExists[path[s]]
                    THEN [fileContent EXCEPT ![path[s]] = Append(@, callNo)]
                    ELSE fileContent
  /\ buf' = IF sink[s] = "buf" THEN [buf EXCEPT ![s] = Append(@, callNo)] ELSE buf
  /\ UNCHANGED <<callVars, pc, sink, handles, fileExists, removed,
                 proc, procStatus, killedBy, raceVars, normVars, resultVars,
                 prevOut>>

\* The process exits on its own with status c.
ProcExit(c) ==
  /\ proc = "running"
  /\ proc' = "exited"
  /\ procStatus' = c
  /\ UNCHANGED <<callVars, pc, sink, handles, buf, fsVars, written, killedBy,
                 raceVars, normVars, resultVars, prevOut>>

\* Something outside the agent terminates the process forcefully.
ExternalKill ==
  /\ proc = "running"
  /\ proc' = KilledState(platform)
  /\ procStatus' = KilledStatus(platform)
  /\ killedBy' = "external"
  /\ UNCHANGED <<callVars, pc, sink, handles, buf, fsVars, written,
                 raceVars, normVars, resultVars, prevOut>>

\* ------------------------------------------------------------- environment
\* The controller signals the cancel flag of the current execution. A signal
\* during the sink setup is taken right before command.Start().
CancelSignal ==
  /\ pc \notin {"idle", "openStdout", "openStderr"}
  /\ ~canceled
  /\ canceled' = TRUE
  /\ cancelAt' = proc
  /\ UNCHANGED <<callVars, pc, sink, handles, buf, fsVars, procVars, killCalls,
                 firedAt, timer, cancelW, timeoutW, interrupted, normVars, resultVars,
                 prevOut>>

\* The execution timeout elapses: the timer fires.
TimerFire ==
  /\ timer = "running"
  /\ timer' = "fired"
  /\ firedAt' = proc
  /\ UNCHANGED <<callVars, pc, sink, handles, buf, fsVars, procVars, killCalls,
                 canceled, cancelAt, cancelW, timeoutW, interrupted, normVars, resultVars,
                 prevOut>>

\* Someone removes an output file. A removal after the process has stopped
\* writing and before the file is read back has the same effect wherever it
\* falls in that window, so it is taken right before the read-back of the
\* stream; a removal between two calls is taken after the return.
RemoveFile(p) ==
  /\ fileExists[p]
  /\ p \notin removed
  /\ Cardinality(removed) < MaxRemovals
  /\ \/ pc = "returned"
     \/ \E s \in Streams : path[s] = p /\ pc = ReadPc(s)
  /\ fileExists' = [fileExists EXCEPT ![p] = FALSE]
  /\ fileContent' = [fileContent EXCEPT ![p] = <<>>]
  /\ removed' = removed \cup {p}
  /\ UNCHANGED <<callVars, pc, sink, handles, buf, procVars, raceVars,
                 normVars, resultVars, prevOut>>

\* ------------------------------------------------------------- the watchers
\* killProcess(command.Process, signal) of the platform adapter: terminates
\* the process if it still runs, and on the platform whose wait status
\* cannot show a forceful kill marks signal.execInterruptedOnWindows.
\* A call on a process already gone changes nothing else and returns cleanly.
killProcess(who) ==
  /\ killCalls' = killCalls + 1
  /\ interrupted' = IF platform = "windows" THEN TRUE ELSE interrupted
  /\ IF proc = "running"
     THEN /\ proc' = KilledState(platform)
          /\ procStatus' = KilledStatus(platform)
          /\ killedBy' = who
     ELSE UNCHANGED <<proc, procStatus, killedBy>>

\* killProcessOnCancel: cancelFlag.Wait() returns, Canceled() holds, kill.
CancelWatcher ==
  /\ cancelW = "waiting"
  /\ canceled
  /\ killProcess("cancel")
  /\ cancelW' = "done"
  /\ UNCHANGED <<callVars, pc, sink, handles, buf, fsVars, written, canceled,
                 cancelAt, firedAt, timer, timeoutW, normVars, resultVars, prevOut>>

\* killProcessOnTimeout: a value arrives on timer.C, kill.
TimeoutWatcher ==
  /\ timeoutW = "waiting"
  /\ timer = "fired"
  /\ killProcess("timeout")
  /\ timeoutW' = "done"
  /\ UNCHANGED <<callVars, pc, sink, handles, buf, fsVars, written, canceled,
                 cancelAt, firedAt, timer, cancelW, normVars, resultVars, prevOut>>

\* ------------------------------------------------------------- the executor
\* ExecuteCommand lines 225-250 / StartCommand lines 313-338: command.Start()
\* and, when it succeeded, the start of the race. Execute goes on to read the
\* sinks back also after a failed launch; StartExe returns in both cases.
Start ==
  /\ pc = "start"
  /\ \E launched \in BOOLEAN :
       /\ proc' = IF launched THEN "running" ELSE "none"
       /\ exitCode' = StartExitCode(launched)
       /\ process' = IF launched /\ api = "StartExe" THEN "handle" ELSE "nil"
       /\ err' = IF launched THEN "nil" ELSE "launch"
       /\ errs' = AppendErr(errs, err')
       /\ cancelW' = IF RaceStarts(launched) THEN "waiting" ELSE "none"
       /\ timer' = IF RaceStarts(launched) /\ TimeoutObserved(api)
                   THEN "running" ELSE "none"
       /\ timeoutW' = IF RaceStarts(launched) /\ TimeoutObserved(api)
                      THEN "waiting" ELSE "none"
       /\ pc' = IF api = "StartExe" THEN "returned"
                ELSE IF launched THEN "wait" ELSE "readStdout"
  /\ handles' = IF api = "StartExe" THEN DeferredClose(handles) ELSE handles
  /\ UNCHANGED <<callVars, sink, buf, fsVars, procStatus, written, killedBy,
                 killCalls, canceled, cancelAt, firedAt, interrupted, normVars,
                 reader, readerData,
                 prevOut>>

\* err = command.Wait() (line 252) returns once the process has terminated.
Wait ==
  /\ pc = "wait"
  /\ proc \in {"exited", "signaled"}
  /\ waitErr' = WaitResult(proc, procStatus)
  /\ rawStatus' = ExitStatus(proc, procStatus)
  /\ pc' = "stopTimer"
  /\ UNCHANGED <<callVars, sink, handles, buf, fsVars, procVars, raceVars,
                 timedOut, flagSeen, cancelSeen, cause, resultVars, prevOut>>

\* timedOut := !timer.Stop() (line 253)
StopTimer ==
  /\ pc = "stopTimer"
  /\ timedOut' = TimedOut(timer)
  /\ timer' = IF TimerStop(timer) THEN "stopped" ELSE timer
  /\ pc' = "normalize"
  /\ UNCHANGED <<callVars, sink, handles, buf, fsVars, procVars, killCalls,
                 canceled, cancelAt, firedAt, cancelW, timeoutW, interrupted, waitErr, rawStatus,
                 flagSeen, cancelSeen, cause, resultVars, prevOut>>

\* Lines 254-266 and 284-296: the exit code from the wait result and the
\* interrupted flag. An exit code of -1 goes on to attribution; every other
\* result ends ExecuteCommand, and Execute appends a non-nil err to errs.
Normalize ==
  /\ pc = "normalize"
  /\ flagSeen' = (waitErr = "exit" /\ interrupted)
  /\ IF waitErr = "nil"
     THEN /\ exitCode' = CleanExitResult(canceled, timedOut).exitCode
          /\ err' = CleanExitResult(canceled, timedOut).err
          /\ errs' = AppendErr(errs, err')
          /\ pc' = "readStdout"
     ELSE IF waitErr = "exit"
     THEN /\ exitCode' = NormalizedExitCode(rawStatus, interrupted)
          /\ IF exitCode' = -1
             THEN /\ pc' = "attribute"
                  /\ UNCHANGED <<err, errs>>
             ELSE /\ pc' = "readStdout"
                  /\ err' = "exit"
                  /\ errs' = AppendErr(errs, "exit")
     ELSE /\ exitCode' = 1 /\ err' = "other" /\ errs' = AppendErr(errs, "other")
          /\ pc' = "readStdout"
  /\ UNCHANGED <<callVars, sink, handles, buf, fsVars, procVars, raceVars,
                 waitErr, rawStatus, timedOut, cancelSeen, cause, process, reader,
                 readerData, prevOut>>

\* Lines 269-278: the attribution of an exit code of -1.
Attribute ==
  /\ pc = "attribute"
  /\ cancelSeen' = canceled
  /\ cause' = AttributedCause(canceled, timedOut)
  /\ exitCode' = AttributedExitCode(canceled, timedOut)
  /\ err' = "exit"
  /\ errs' = AppendErr(errs, "exit")
  /\ pc' = "readStdout"
  /\ UNCHANGED <<callVars, sink, handles, buf, fsVars, procVars, raceVars,
                 waitErr, rawStatus, timedOut, flagSeen, process, reader,
                 readerData, prevOut>>

\* ------------------------------------------------------------- read-back
\* Execute lines 118-140: the reader of stream s. An existing file is opened
\* for reading from its start (a failed open adds its error and leaves a nil
\* file); otherwise the buffer is read, and when a file path was given there
\* is no buffer: stdoutBuf is nil and stdoutBuf.Bytes() panics. The deferred
\* Close calls run on return and on panic.
ReadBack(s, here, next) ==
  /\ pc = here
  /\ IF Exists(path[s])
     THEN \E ok \in BOOLEAN :
            IF ok
            THEN /\ reader' = [reader EXCEPT ![s] = "file"]
                 /\ readerData' = [readerData EXCEPT ![s] = fileContent[path[s]]]
                 /\ errs' = errs
                 /\ pc' = next
            ELSE /\ reader' = [reader EXCEPT ![s] = "bad"]
                 /\ readerData' = readerData
                 /\ errs' = Append(errs, "readback")
                 /\ pc' = next
     ELSE IF sink[s] = "buf"
     THEN /\ reader' = [reader EXCEPT ![s] = "buf"]
          /\ readerData' = [readerData EXCEPT ![s] = BufferBytes(s)]
          /\ errs' = errs
          /\ pc' = next
     ELSE /\ pc' = "panicked"
          /\ UNCHANGED <<reader, readerData, errs>>
  /\ handles' = IF pc' \in {"returned", "panicked"}
                THEN DeferredClose(handles) ELSE handles
  /\ UNCHANGED <<callVars, sink, buf, fsVars, procVars, raceVars, normVars,
                 process, exitCode, err, prevOut>>

ReadStdout == ReadBack("stdout", "readStdout", "readStderr")
ReadStderr == ReadBack("stderr", "readStderr", "returned")

\* ------------------------------------------------------------- specification
Entries == {"Execute", "StartExe"}
PathArgs(s) == {"", PathOf(s)}

\* One execution, from the call to after its return, racing with the cancel
\* flag's controller, the timer, the process and the file system.
FirstCall(entry, po, pe) == callNo = 0 /\ Call(entry, po, pe)

Next ==
  \/ \E entry \in Entries, po \in PathArgs("stdout"), pe \in PathArgs("stderr") :
       FirstCall(entry, po, pe)
  \/ OpenStdout
  \/ OpenStderr
  \/ Start
  \/ \E s \in Streams : ProcWrite(s)
  \/ \E c \in ExitCodes : ProcExit(c)
  \/ ExternalKill
  \/ CancelSignal
  \/ TimerFire
  \/ \E p \in Paths : RemoveFile(p)
  \/ CancelWatcher
  \/ TimeoutWatcher
  \/ Wait
  \/ StopTimer
  \/ Normalize
  \/ Attribute
  \/ ReadStdout
  \/ ReadStderr

Spec == Init /\ [][Next]_vars

\* The steps of the calling goroutine and of the two watchers: goroutines
\* that can run are scheduled.
Fairness ==
  /\ WF_vars(OpenStdout) /\ WF_vars(OpenStderr) /\ WF_vars(Start)
  /\ WF_vars(Wait) /\ WF_vars(StopTimer) /\ WF_vars(Normalize)
  /\ WF_vars(Attribute) /\ WF_vars(ReadStdout) /\ WF_vars(ReadStderr)
  /\ WF_vars(CancelWatcher) /\ WF_vars(TimeoutWatcher)

FairSpec == Spec /\ Fairness

\* Up to MaxCalls sequential calls against the same file system, each with
\* a process that runs to its own exit (no cancellation, timeout or kill).
SeqNext ==
  \/ \E entry \in Entries, po \in PathArgs("stdout"), pe \in PathArgs("stderr") :
       Call(entry, po, pe)
  \/ OpenStdout
  \/ OpenStderr
  \/ Start
  \/ \E s \in Streams : ProcWrite(s)
  \/ \E c \in ExitCodes : ProcExit(c)
  \/ \E p \in Paths : RemoveFile(p)
  \/ Wait
  \/ StopTimer
  \/ Normalize
  \/ ReadStdout
  \/ ReadStderr

SeqSpec == Init /\ [][SeqNext]_vars

\* ------------------------------------------------------------- properties
Sentinel == CommandStoppedPreemptivelyExitCode

\* ExecuteCommand has returned to Execute (the exit code is final).
ExecuteCommandReturned ==
  api = "Execute" /\ pc \in {"readStdout", "readStderr", "returned", "panicked"}

\* Execute has returned to its caller.
ExecuteReturned == api = "Execute" /\ pc = "returned"

\* The process of the current execution was launched and has terminated.
Launched == proc \in {"exited", "signaled"}

\* C1: when the process exits on its own with status c, the cancel flag is
\* not signaled and the timer does not fire, the exit code ExecuteCommand
\* returns is c.
C1_NaturalExitCode ==
  (ExecuteCommandReturned /\ proc = "exited" /\ killedBy = "none"
     /\ ~canceled /\ timer # "fired")
  => exitCode = procStatus

C1_Witness ==
  /\ ExecuteReturned /\ proc = "exited" /\ killedBy = "none"
  /\ ~canceled /\ timer = "stopped" /\ procStatus = 3 /\ exitCode = 3

C4_Attribution ==
  /\ pc \in {"normalize", "attribute"} \cup {"readStdout", "readStderr", "returned", "panicked"}
       /\ api = "Execute" /\ waitErr # "unset"
     => (timedOut <=> timer = "fired")
  /\ (ExecuteCommandReturned /\ waitErr = "exit"
        /\ (flagSeen \/ rawStatus = -1))
     => exitCode = IF cancelSeen THEN Sentinel
                   ELSE IF timer = "fired" THEN Sentinel
                   ELSE -1

C4_Witness ==
  /\ ExecuteReturned /\ waitErr = "exit" /\ rawStatus = -1
  /\ ~cancelSeen /\ timer = "stopped" /\ exitCode = -1

\* C5: when the wait returned a non-zero exit status other than -1 and the
\* interrupted flag was not set, the exit code returned is that status, also
\* when the cancel flag is signaled or the timer has fired.
C5_StatusVerbatim ==
  (ExecuteCommandReturned /\ waitErr = "exit" /\ rawStatus # -1 /\ ~flagSeen)
  => exitCode = rawStatus

C5_Witness ==
  /\ ExecuteReturned /\ waitErr = "exit" /\ rawStatus = 3 /\ ~flagSeen
  /\ cancelAt = "running" /\ timedOut /\ exitCode = 3

\* C6: when the wait returned without error, the exit code is 0 and no error
\* of the execution is in the error set, whether or not the cancel flag was
\* signaled or the timer fired (only read-back errors may be present).
C6_CleanExit ==
  (ExecuteCommandReturned /\ waitErr = "nil")
  => /\ exitCode = 0
     /\ err = "nil"
     /\ \A i \in DOMAIN errs : errs[i] = "readback"

C6_Witness ==
  /\ ExecuteReturned /\ waitErr = "nil" /\ cancelAt = "running" /\ timedOut
  /\ killCalls = 2 /\ exitCode = 0 /\ errs = <<>>

\* C7: when command.Start() fails, ExecuteCommand and StartCommand return exit
\* code 1 with the launch error, and no watcher, no timer and no killProcess
\* call exists for that execution, then and ever after.
C7_LaunchFailure ==
  err = "launch"
  => /\ exitCode = 1
     /\ proc = "none"
     /\ cancelW = "none" /\ timeoutW = "none" /\ timer = "none"
     /\ killCalls = 0 /\ ~interrupted

C7_Witness ==
  /\ err = "launch" /\ pc = "returned" /\ api = "StartExe" /\ canceled
  /\ exitCode = 1 /\ killCalls = 0

\* The sink setup of the current call failed: the call returned before
\* command.Start() was reached (only then is a writer still unassigned).
SinkSetupFailed == pc = "returned" /\ sink["stderr"] = "unset"

\* C8: when opening an output file fails, Execute returns with the setup
\* error in its error set, nil readers and exit code 0, and no process is
\* launched.
C8_SetupError ==
  (api = "Execute" /\ SinkSetupFailed)
  => /\ errs # <<>>
     /\ \A s \in Streams : reader[s] = "nil"
     /\ exitCode = 0
     /\ proc = "none"

\* xs ends with ys.
EndsWith(xs, ys) ==
  /\ Len(ys) <= Len(xs)
  /\ SubSeq(xs, Len(xs) - Len(ys) + 1, Len(xs)) = ys

\* C9 as stated: whenever Execute returns after a successful launch, each
\* returned reader yields every byte the process wrote to its stream.
C9_Original ==
  (ExecuteReturned /\ Launched)
  => \A s \in Streams : EndsWith(readerData[s], written[s])

\* C9 amended: whenever Execute returns after a successful launch, the reader
\* of every stream whose read-back did not fail yields every byte the process
\* wrote to that stream: exactly those bytes from a buffer, and the file's
\* content ending with those bytes from a file; also when the process was
\* killed and the error set is not empty.
C9_OutputPreserved ==
  (ExecuteReturned /\ Launched)
  => \A s \in Streams :
       /\ reader[s] \in {"buf", "file", "bad"}
       /\ reader[s] = "buf" => readerData[s] = written[s]
       /\ reader[s] = "file" => EndsWith(readerData[s], written[s])

C9_Witness ==
  /\ ExecuteReturned /\ killedBy = "cancel" /\ errs # <<>>
  /\ written["stdout"] # <<>> /\ reader["stdout"] = "buf"
  /\ written["stderr"] # <<>> /\ reader["stderr"] = "file"
  /\ readerData["stderr"] = <<0>> \o written["stderr"]

\* C10: when an Execute call returns having written a stream to a file that
\* nobody removed, the file ends with the bytes the previous call wrote to it
\* followed by the bytes this call wrote (nothing of the earlier content is
\* truncated or overwritten), and the reader this call returns yields the
\* file from its first byte.
C10_Append ==
  \A s \in Streams :
    (ExecuteReturned /\ sink[s] = "file" /\ path[s] \notin removed)
    => /\ EndsWith(fileContent[path[s]], prevOut[s] \o written[s])
       /\ reader[s] = "file" => readerData[s] = fileContent[path[s]]

C10_Witness ==
  /\ ExecuteReturned /\ callNo = 2 /\ sink["stdout"] = "file"
  /\ prevOut["stdout"] = <<1>> /\ written["stdout"] = <<2>>
  /\ fileContent["out"] = <<0, 1, 2>>
  /\ reader["stdout"] = "file" /\ readerData["stdout"] = <<0, 1, 2>>

\* StartExe has returned after both sinks were set up (StartCommand ran).
StartExeReturned ==
  api = "StartExe" /\ pc = "returned" /\ ~SinkSetupFailed

\* C11: StartExe never waits for the process. When the launch succeeds it
\* returns the process handle, exit code 0 and no error, with the cancel
\* watcher attached; when the launch fails it returns no handle, exit code 1
\* and the launch error. No timer and no timeout watcher exist on this path,
\* and the code calls killProcess only after the cancel flag was signaled.
C11_StartExe ==
  api = "StartExe"
  => /\ pc \in {"openStdout", "openStderr", "start", "returned"}
     /\ waitErr = "unset"
     /\ timer = "none" /\ timeoutW = "none"
     /\ killedBy \in {"none", "external", "cancel"}
     /\ killCalls > 0 => canceled
     /\ StartExeReturned
        => /\ err \in {"nil", "launch"}
           /\ err = "nil"
              => /\ process = "handle" /\ exitCode = 0 /\ errs = <<>>
                 /\ proc # "none" /\ cancelW \in {"waiting", "done"}
           /\ err = "launch"
              => /\ process = "nil" /\ exitCode = 1 /\ errs = <<"launch">>
                 /\ proc = "none" /\ cancelW = "none"

C11_Witness ==
  /\ StartExeReturned /\ process = "handle" /\ exitCode = 0 /\ errs = <<>>
  /\ proc = "running" /\ cancelW = "waiting" /\ timeoutW = "none"

\* C12: when a stream of a launched process was given a file path and the
\* file is missing or cannot be opened at read-back, Execute does not panic
\* and returns with the read-back error in its error set and a reader for
\* the other stream.
C12_ReadBackNonFatal ==
  (api = "Execute" /\ Launched)
  => /\ pc # "panicked"
     /\ pc = "returned"
        => \A s \in Streams :
             (path[s] # "" /\ reader[s] # "file")
             => /\ \E i \in DOMAIN errs : errs[i] = "readback"
                /\ \A o \in Streams \ {s} : reader[o] # "nil"

\* C13 as stated: when Execute returns the sentinel attributed to the
\* timeout, the error set holds an error that names the timeout.
C13_Original ==
  (ExecuteReturned /\ exitCode = Sentinel /\ cause = "timeout")
  => \E i \in DOMAIN errs : errs[i] = "timeout"

\* C13: when Execute returns the sentinel, attributed to the timeout or to
\* the cancellation, the error set is non-empty and holds the exit-status
\* error of command.Wait() followed only by read-back errors; no error names
\* the cause.
C13_WaitErrorOnly ==
  (ExecuteReturned /\ exitCode = Sentinel /\ cause \in {"timeout", "cancel"})
  => /\ errs # <<>>
     /\ errs[1] = "exit"
     /\ \A i \in DOMAIN errs : i > 1 => errs[i] = "readback"

C13_Witness ==
  /\ ExecuteReturned /\ exitCode = Sentinel /\ cause = "timeout"
  /\ killedBy = "timeout" /\ ~canceled /\ errs = <<"exit">>

\* C14: once command.Wait() has returned, killProcessOnTimeout eventually
\* terminates, also when the timer was stopped before it fired.
C14_TimeoutWatcherTerminates ==
  (api = "Execute" /\ pc = "stopTimer") ~> (timeoutW = "done")

\* C15: when a call of Execute or StartExe has returned, on any path (a
\* failed os.OpenFile, a failed launch, an exit, a kill, a panic), none of
\* the write handles it opened is still open.
C15_HandlesClosed ==
  pc \in {"returned", "panicked"} => handles = {}

C15_Witness ==
  /\ ExecuteReturned /\ handles = {}
  /\ path["stdout"] # "" /\ sink["stdout"] = "file"
  /\ path["stderr"] # "" /\ sink["stderr"] = "unset"

\* C16 as stated: the sentinel is attributed to exactly one cause, the one
\* whose watcher killed the process.
C16_Original ==
  (ExecuteCommandReturned /\ exitCode = Sentinel)
  => /\ cause \in {"cancel", "timeout"}
     /\ killedBy = "timeout" => cause = "timeout"
     /\ killedBy = "cancel" => cause = "cancel"

\* C16: the sentinel is attributed to exactly one cause, and the cancellation
\* takes precedence: the cause is the cancellation whenever the cancel flag
\* is signaled when the attribution polls it, also when the timeout watcher
\* killed the process first; it is the timeout only when the flag is not
\* signaled and timer.Stop() reported false.
C16_CancelPrecedence ==
  (ExecuteCommandReturned /\ exitCode = Sentinel)
  => /\ cause \in {"cancel", "timeout"}
     /\ cause = "cancel" <=> cancelSeen
     /\ cause = "timeout" => timedOut
     /\ killedBy = "cancel" => cause = "cancel"

C16_Witness ==
  /\ ExecuteCommandReturned /\ exitCode = Sentinel
  /\ killedBy = "timeout" /\ killCalls = 2 /\ timedOut /\ cause = "cancel"

\* C17: when the interrupted flag is found set after command.Wait() returned
\* an exit-status error, the exit code is -1 when the attribution starts and
\* ExecuteCommand returns the sentinel or -1, not the status of the process.
C17_RawStatusDiscarded ==
  /\ (api = "Execute" /\ pc = "attribute") => exitCode = -1
  /\ (ExecuteCommandReturned /\ waitErr = "exit" /\ flagSeen)
     => /\ exitCode \in {Sentinel, -1}
        /\ exitCode # rawStatus

C17_Witness ==
  /\ ExecuteCommandReturned /\ waitErr = "exit" /\ flagSeen
  /\ proc = "exited" /\ rawStatus = 3 /\ exitCode = Sentinel

\* C18: a process started by StartExe has, for every stream whose file path
\* was given, the opened file as its writer.
C18_WriterBound ==
  \A s \in Streams :
    (api = "StartExe" /\ proc # "none" /\ path[s] # "")
    => sink[s] = "file"

\* C19: once Execute has returned, no watcher calls killProcess.
C19_NoKillAfterReturn ==
  [][ExecuteReturned => killCalls' = killCalls]_vars

\* C20: when the exit code is normalized, a set interrupted flag implies that
\* the cancel flag is signaled or that timer.Stop() reported false; hence an
\* execution whose flag is found set after an exit-status error returns the
\* sentinel, never -1.
C20_FlagImpliesCause ==
  /\ (api = "Execute" /\ pc = "normalize" /\ interrupted)
     => (canceled \/ timedOut)
  /\ (ExecuteCommandReturned /\ waitErr = "exit" /\ flagSeen)
     => exitCode = Sentinel

C20_Witness ==
  /\ ExecuteCommandReturned /\ waitErr = "exit" /\ flagSeen
  /\ platform = "windows" /\ killedBy = "timeout" /\ ~canceled
  /\ exitCode = Sentinel

====
